---------------------------- MODULE Spec2Model ----------------------------
(***************************************************************************)
(* A model of the object store of codecrafters-git-rust: the tree entry    *)
(* ordering and equality (src/src/tree_entry.rs), the header parser of     *)
(* Object::read, the stage-then-rename write path of Object::write, the    *)
(* tree serializer and TreeIterator, and write_blob / write_tree /         *)
(* write_commit (src/src/object.rs).                                       *)
(*                                                                         *)
(* Bytes are the integers 0..255 and byte strings are sequences of them.   *)
(* Each group of variables belongs to one specification; the other         *)
(* specifications leave it at its initial value.                           *)
(***************************************************************************)
EXTENDS Integers, Sequences, FiniteSets, TLC

VARIABLES
    \* SpecEq: one application of TreeEntry::eq and TreeEntry::cmp
    cmpArgs, cmpRes,
    \* SpecTree: two runs of write_tree's loop and serializer on one directory
    children, todo, listed, entries, buf, tpc,
    \* SpecRead: one call of Object::read on one object file
    rdFile, rdPc, rdBuf, rdRest, rdOut,
    \* SpecIter: one TreeIterator over one tree payload
    itItems, itReader, itScratch, itOut, itPc,
    \* SpecConc: processes in Object::write and a reader, on one filesystem
    files, subdirs, wpc, wobj, wfd, woff, whashed, seen,
    \* Spec: the commands of main on one repository and working directory
    repo, store, fdata, op, stack, blob, built, ret

eqVars   == <<cmpArgs, cmpRes>>
treeVars == <<children, todo, listed, entries, buf, tpc>>
readVars == <<rdFile, rdPc, rdBuf, rdRest, rdOut>>
iterVars == <<itItems, itReader, itScratch, itOut, itPc>>
concVars == <<files, subdirs, wpc, wobj, wfd, woff, whashed, seen>>
repoVars == <<repo, store, fdata, op, stack, blob, built, ret>>
vars     == <<eqVars, treeVars, readVars, iterVars, concVars, repoVars>>

---------------------------------------------------------------------------
(* Bounds of the model *)

\* the most children a modelled directory listing holds
MaxChildren == 3

---------------------------------------------------------------------------
(* Bytes and byte strings *)

NUL   == 0
SP    == 32
SLASH == 47

\* ASCII digit of d, 0 <= d <= 9
Digit(d) == 48 + d

NameFoo    == <<102, 111, 111>>                      \* "foo"
NameFooTxt == <<102, 111, 111, 46, 116, 120, 116>>   \* "foo.txt"
NameFooDash == <<102, 111, 111, 45>>                 \* "foo-"
NameFoo0   == <<102, 111, 111, 48>>                  \* "foo0"
NameFo     == <<102, 111>>                           \* "fo"

Min(a, b) == IF a <= b THEN a ELSE b

\* Option<u8>: <<>> is None, <<b>> is Some(b)
None    == <<>>
Some(b) == <<b>>

\* Ord for Option<u8>: None < Some(_), Some(x) against Some(y) by the bytes
OptCmp(a, b) ==
    IF a = None /\ b = None THEN "Equal"
    ELSE IF a = None THEN "Less"
    ELSE IF b = None THEN "Greater"
    ELSE IF a[1] < b[1] THEN "Less"
    ELSE IF a[1] > b[1] THEN "Greater"
    ELSE "Equal"

\* Ord for [u8]: lexicographic, a proper prefix is less
RECURSIVE SliceCmp(_, _)
SliceCmp(a, b) ==
    IF a = <<>> /\ b = <<>> THEN "Equal"
    ELSE IF a = <<>> THEN "Less"
    ELSE IF b = <<>> THEN "Greater"
    ELSE IF Head(a) < Head(b) THEN "Less"
    ELSE IF Head(a) > Head(b) THEN "Greater"
    ELSE SliceCmp(Tail(a), Tail(b))

---------------------------------------------------------------------------
(* tree_entry.rs: TreeEntryMode, TreeEntry, PartialEq, Ord *)

NormalFile     == 33188   \* 0o100644
ExecutableFile == 33261   \* 0o100755
Symlink        == 40960   \* 0o120000
Directory      == 16384   \* 0o40000

Modes == {NormalFile, ExecutableFile, Symlink, Directory}

is_directory(mode) == mode = Directory

TreeEntryNew(mode, name, hash) == [mode |-> mode, name |-> name, hash |-> hash]

\* impl PartialEq for TreeEntry
TreeEntryEq(self, other) ==
    IF is_directory(self.mode) /\ ~is_directory(other.mode)
    THEN FALSE
    ELSE self.name = other.name

\* name.get(len).copied().or(if mode.is_directory() { Some(b'/') } else { None })
ByteAfterSlash(name, len, mode) ==
    IF len < Len(name) THEN Some(name[len + 1])
    ELSE IF is_directory(mode) THEN Some(SLASH)
    ELSE None

\* the same with the directory substitution dropped
ByteAfterPlain(name, len, mode) ==
    IF len < Len(name) THEN Some(name[len + 1]) ELSE None

ByteAfter(name, len, mode) == ByteAfterSlash(name, len, mode)

\* impl Ord for TreeEntry
TreeEntryCmp(self, other) ==
    LET name1 == self.name
        name2 == other.name
        len   == Min(Len(name1), Len(name2))
        ord   == SliceCmp(SubSeq(name1, 1, len), SubSeq(name2, 1, len))
    IN  IF ord = "Equal"
        THEN OptCmp(ByteAfter(name1, len, self.mode),
                    ByteAfter(name2, len, other.mode))
        ELSE ord

---------------------------------------------------------------------------
(* BTreeSet<TreeEntry>: kept as the ascending sequence of its elements *)

\* the first position whose element is not less than e (Len + 1 if none)
RECURSIVE LowerBound(_, _, _)
LowerBound(s, e, i) ==
    IF i > Len(s) THEN i
    ELSE IF TreeEntryCmp(e, s[i]) = "Greater" THEN LowerBound(s, e, i + 1)
    ELSE i

InsertAt(s, i, e) == SubSeq(s, 1, i - 1) \o <<e>> \o SubSeq(s, i, Len(s))

\* BTreeSet::insert: an element comparing Equal to e keeps its place, e is dropped
BTreeInsertSorted(s, e) ==
    LET i == LowerBound(s, e, 1)
    IN  IF i <= Len(s) /\ TreeEntryCmp(e, s[i]) = "Equal" THEN s
        ELSE InsertAt(s, i, e)

\* a Vec::push in place of the ordered insert
BTreeInsertAppend(s, e) == Append(s, e)

BTreeInsert(s, e) == BTreeInsertSorted(s, e)

---------------------------------------------------------------------------
(* The tree payload: write_tree's serializer *)

HashLen == 20

\* format!("{:o}", n): the octal digits of n, no padding
RECURSIVE OctalDigits(_)
OctalDigits(n) ==
    IF n < 8 THEN <<Digit(n)>>
    ELSE Append(OctalDigits(n \div 8), Digit(n % 8))

\* format!("{:06o}", n): zero-padded to six digits, as ls-tree prints modes
RECURSIVE PadLeft(_, _)
PadLeft(ds, width) ==
    IF Len(ds) >= width THEN ds ELSE PadLeft(<<Digit(0)>> \o ds, width)

FormatModePadded(mode) == PadLeft(OctalDigits(mode), 6)

\* fmt::Octal for TreeEntryMode
FormatMode(mode) == OctalDigits(mode)

SerializeEntry(e) == FormatMode(e.mode) \o <<SP>> \o e.name \o <<NUL>> \o e.hash

RECURSIVE SerializeEntries(_)
SerializeEntries(es) ==
    IF es = <<>> THEN <<>>
    ELSE SerializeEntry(Head(es)) \o SerializeEntries(Tail(es))

---------------------------------------------------------------------------
(* SpecEq: TreeEntry eq and cmp applied once to a drawn pair *)

Hash0 == [i \in 1..HashLen |-> 0]
Hash1 == [i \in 1..HashLen |-> IF i % 2 = 0 THEN SP ELSE 171]

EntryNames == {NameFoo, NameFooTxt, NameFooDash, NameFoo0, NameFo}
EntryPool  == {TreeEntryNew(m, n, h) : m \in Modes, n \in EntryNames, h \in {Hash0}}

EqIdle == cmpArgs = <<>> /\ cmpRes = <<>>

TreeIdle ==
    /\ children = {} /\ todo = <<>> /\ listed = <<>>
    /\ entries = <<>> /\ buf = <<>> /\ tpc = <<>>

ReadIdle ==
    /\ rdFile = [exists |-> FALSE, bytes |-> <<>>] /\ rdPc = "idle" /\ rdBuf = <<>>
    /\ rdRest = <<>> /\ rdOut = <<>>

IterIdle ==
    /\ itItems = <<>> /\ itReader = <<>> /\ itScratch = <<>>
    /\ itOut = <<>> /\ itPc = "idle"

ConcIdle ==
    /\ files = <<>> /\ subdirs = {} /\ wpc = <<>> /\ wobj = <<>>
    /\ wfd = <<>> /\ woff = <<>> /\ whashed = <<>> /\ seen = <<>>

RepoIdle ==
    /\ repo = FALSE /\ store = {} /\ fdata = <<>> /\ op = "idle"
    /\ stack = <<>> /\ blob = <<>> /\ built = {} /\ ret = <<>>

InitEq ==
    /\ cmpArgs \in EntryPool \X EntryPool
    /\ cmpRes = <<>>
    /\ TreeIdle /\ ReadIdle /\ IterIdle /\ ConcIdle /\ RepoIdle

Compare ==
    /\ cmpRes = <<>>
    /\ cmpRes' = <<TreeEntryEq(cmpArgs[1], cmpArgs[2]),
                   TreeEntryCmp(cmpArgs[1], cmpArgs[2])>>
    /\ UNCHANGED <<cmpArgs, treeVars, readVars, iterVars, concVars, repoVars>>

NextEq == Compare

SpecEq == InitEq /\ [][NextEq]_vars

\* C3: a directory entry and a non-directory entry of the same name are never
\* equal under TreeEntry::eq, in either argument order.
C3_EqNeverAcrossKinds ==
    (/\ cmpRes # <<>>
     /\ cmpArgs[1].name = cmpArgs[2].name
     /\ is_directory(cmpArgs[1].mode) # is_directory(cmpArgs[2].mode))
        => cmpRes[1] = FALSE

---------------------------------------------------------------------------
(* SpecTree: write_tree's loop over read_dir and its serializer, run twice *)
(* on one directory, the second run after the first has returned;         *)
(* read_dir yields the children in any order                              *)

Runs == {1, 2}

TreeNames == {NameFoo, NameFooTxt, NameFooDash, NameFoo0}

\* the hash write_tree / write_blob returned for a child: opaque here
ChildHash(mode) == IF is_directory(mode) THEN Hash1 ELSE Hash0

InitTree ==
    /\ \E N \in SUBSET TreeNames :
          /\ Cardinality(N) <= MaxChildren
          /\ \E f \in [N -> Modes] :
                children = {TreeEntryNew(f[n], n, ChildHash(f[n])) : n \in N}
    /\ todo = [r \in Runs |-> children]
    /\ listed = [r \in Runs |-> <<>>]
    /\ entries = [r \in Runs |-> <<>>]
    /\ buf = [r \in Runs |-> <<>>]
    /\ tpc = [r \in Runs |-> "loop"]
    /\ EqIdle /\ ReadIdle /\ IterIdle /\ ConcIdle /\ RepoIdle

\* one iteration of `for entry in dir`: entries.insert(TreeEntry::new(..))
TreeLoop(r) ==
    /\ tpc[r] = "loop"
    /\ \A q \in Runs : q < r => tpc[q] = "done"
    /\ \E e \in todo[r] :
          /\ todo' = [todo EXCEPT ![r] = @ \ {e}]
          /\ listed' = [listed EXCEPT ![r] = Append(@, e.name)]
          /\ entries' = [entries EXCEPT ![r] = BTreeInsert(@, e)]
    /\ UNCHANGED <<children, buf, tpc, eqVars, readVars, iterVars, concVars, repoVars>>

\* `for entry in entries { buf.extend.. }` once read_dir is exhausted
TreeSerialize(r) ==
    /\ tpc[r] = "loop"
    /\ \A q \in Runs : q < r => tpc[q] = "done"
    /\ todo[r] = {}
    /\ buf' = [buf EXCEPT ![r] = SerializeEntries(entries[r])]
    /\ tpc' = [tpc EXCEPT ![r] = "done"]
    /\ UNCHANGED <<children, todo, listed, entries, eqVars, readVars, iterVars, concVars, repoVars>>

NextTree == \E r \in Runs : TreeLoop(r) \/ TreeSerialize(r)

SpecTree == InitTree /\ [][NextTree]_vars

FooDir    == TreeEntryNew(Directory, NameFoo, ChildHash(Directory))
FooTxtIn(S) == {e \in S : e.name = NameFooTxt /\ ~is_directory(e.mode)}

\* the position of entry e in the sequence es (0 if absent)
PosOf(es, e) ==
    IF \E i \in 1..Len(es) : es[i] = e
    THEN CHOOSE i \in 1..Len(es) : es[i] = e
    ELSE 0

\* run r has serialized a directory holding the directory foo and a file foo.txt
FooCase(r) ==
    /\ tpc[r] = "done"
    /\ FooDir \in children
    /\ FooTxtIn(children) # {}

\* C2 as stated: the directory foo is serialized before the file foo.txt.
C2_FooDirFirst ==
    \A r \in Runs : FooCase(r) =>
        \A t \in FooTxtIn(children) :
            /\ buf[r] = SerializeEntries(entries[r])
            /\ PosOf(entries[r], FooDir) > 0
            /\ PosOf(entries[r], FooDir) < PosOf(entries[r], t)

\* C2 amended: the file foo.txt is serialized before the directory foo, which
\* compares as foo/ and '/' (0x2F) is greater than '.' (0x2E).
C2_FooTxtFirst ==
    \A r \in Runs : FooCase(r) =>
        \A t \in FooTxtIn(children) :
            /\ buf[r] = SerializeEntries(entries[r])
            /\ PosOf(entries[r], t) > 0
            /\ PosOf(entries[r], t) < PosOf(entries[r], FooDir)

C2_Witness == FooCase(1) /\ Len(entries[1]) = 2

StrictlyAscending(es) ==
    \A i, j \in 1..Len(es) : i < j => TreeEntryCmp(es[i], es[j]) = "Less"

\* C8: whatever order read_dir yields the children in, the serialized payload
\* is the same, holds every child once and is strictly ascending under
\* TreeEntry::cmp.
C8_ListingOrderIrrelevant ==
    (tpc[1] = "done" /\ tpc[2] = "done") =>
        /\ buf[1] = buf[2]
        /\ \A r \in Runs :
              /\ {entries[r][i] : i \in 1..Len(entries[r])} = children
              /\ Len(entries[r]) = Cardinality(children)
              /\ StrictlyAscending(entries[r])
              /\ buf[r] = SerializeEntries(entries[r])

C8_Witness ==
    /\ tpc[1] = "done" /\ tpc[2] = "done"
    /\ Cardinality(children) >= 3
    /\ listed[1] # listed[2]
    /\ listed[1][1] # listed[2][1]
    /\ \E e \in children : is_directory(e.mode)

---------------------------------------------------------------------------
(* SpecRead: Object::read on one object file, step by step *)

KwBlob   == <<98, 108, 111, 98>>               \* "blob"
KwTree   == <<116, 114, 101, 101>>             \* "tree"
KwCommit == <<99, 111, 109, 109, 105, 116>>    \* "commit"

\* impl TryFrom<&str> for Kind: <<kind>> or <<>> for the bail!
KindTryFrom(value) ==
    IF value = KwBlob THEN <<"Blob">>
    ELSE IF value = KwTree THEN <<"Tree">>
    ELSE IF value = KwCommit THEN <<"Commit">>
    ELSE <<>>

\* impl fmt::Display for Kind
KindDisplay(kind) ==
    IF kind = "Blob" THEN KwBlob
    ELSE IF kind = "Tree" THEN KwTree
    ELSE KwCommit

\* the index of the first b in s, 0 if there is none
RECURSIVE FindFrom(_, _, _)
FindFrom(s, b, i) ==
    IF i > Len(s) THEN 0
    ELSE IF s[i] = b THEN i
    ELSE FindFrom(s, b, i + 1)

Find(s, b) == FindFrom(s, b, 1)

\* BufRead::read_until(b, ..): the bytes up to and including the first b, or
\* all of them when there is none
ReadUntil(s, b) ==
    IF Find(s, b) = 0 THEN s ELSE SubSeq(s, 1, Find(s, b))

Drop(s, n) == SubSeq(s, n + 1, Len(s))

\* CStr::from_bytes_with_nul: the last byte is the only NUL
CStrOk(bytes) == bytes # <<>> /\ Find(bytes, NUL) = Len(bytes)

\* str::from_utf8 on the byte strings of the model, which hold ASCII and 0xFF
IsUtf8(bytes) == \A i \in 1..Len(bytes) : bytes[i] < 128

IsDigit(b) == 48 <= b /\ b <= 57

RECURSIVE StripZeros(_)
StripZeros(ds) ==
    IF ds # <<>> /\ Head(ds) = Digit(0) THEN StripZeros(Tail(ds)) ELSE ds

\* u64::MAX, 18446744073709551615, as ASCII digits
U64MaxDigits ==
    <<49, 56, 52, 52, 54, 55, 52, 52, 48, 55, 51, 55, 48, 57, 53, 53, 49, 54, 49, 53>>

\* str::parse::<u64>: an optional '+', then one or more digits, value <= u64::MAX.
\* <<digits without sign and leading zeros>> or <<>> for the ParseIntError
ParseU64(tok) ==
    LET ds == IF tok # <<>> /\ Head(tok) = 43 THEN Tail(tok) ELSE tok
        v  == StripZeros(ds)
    IN  IF ds = <<>> \/ \E i \in 1..Len(ds) : ~IsDigit(ds[i]) THEN <<>>
        ELSE IF Len(v) > Len(U64MaxDigits) THEN <<>>
        ELSE IF Len(v) = Len(U64MaxDigits) /\ SliceCmp(v, U64MaxDigits) = "Greater"
             THEN <<>>
        ELSE <<v>>

\* the value of a digit string, capped at cap
RECURSIVE NatCapped(_, _, _)
NatCapped(ds, acc, cap) ==
    IF ds = <<>> THEN acc
    ELSE IF acc * 10 + (Head(ds) - 48) >= cap THEN cap
    ELSE NatCapped(Tail(ds), acc * 10 + (Head(ds) - 48), cap)

\* Read::take(size) read to its end
Take(rest, size) == SubSeq(rest, 1, NatCapped(size, 0, Len(rest)))

\* str::split_once(' '): <<before, after>> or <<>> for None
SplitOnce(header) ==
    IF Find(header, SP) = 0 THEN <<>>
    ELSE <<SubSeq(header, 1, Find(header, SP) - 1), Drop(header, Find(header, SP))>>

\* an object file: absent, or present with its decompressed bytes
NoFile == [exists |-> FALSE, bytes |-> <<>>]
FileOf(bytes) == [exists |-> TRUE, bytes |-> bytes]

KindToks == {KwBlob, KwTree, KwCommit, <<98, 108, 111, 103>>, <<>>, <<98, 255>>}
SepToks  == {<<>>, <<SP>>}
SizeToks == {<<>>, <<48>>, <<54>>, <<48, 48, 55>>, <<43, 54>>, <<45, 54>>,
             <<54, 120>>, <<SP, 54>>, U64MaxDigits, Append(Tail(U64MaxDigits), 54),
             <<49, 56, 52, 52, 54, 55, 52, 52, 48, 55, 51, 55, 48, 57, 53, 53, 49, 54, 49, 54>>}
TermToks == {<<>>, <<NUL>>}
Payloads == {<<>>, <<104, 105, NUL, 104, 105, SP, 10>>}

\* the decompressed bytes of the object files the reads are tried on
Streams == {k \o sp \o sz \o t \o p :
              k \in KindToks, sp \in SepToks, sz \in SizeToks,
              t \in TermToks, p \in Payloads}

InitRead ==
    /\ rdFile \in {NoFile} \cup {FileOf(b) : b \in Streams}
    /\ rdPc = "open"
    /\ rdBuf = <<>>
    /\ rdRest = <<>>
    /\ rdOut = <<>>
    /\ EqIdle /\ TreeIdle /\ IterIdle /\ ConcIdle /\ RepoIdle

Err     == [tag |-> "Err",   kind |-> "", size |-> <<>>, reader |-> <<>>]
Panic   == [tag |-> "Panic", kind |-> "", size |-> <<>>, reader |-> <<>>]
Ok(k, sz, rd) == [tag |-> "Ok", kind |-> k, size |-> sz, reader |-> rd]

\* File::open(path)?
ReadOpen ==
    /\ rdPc = "open"
    /\ IF rdFile = NoFile
       THEN rdPc' = "done" /\ rdOut' = Err /\ rdRest' = rdRest
       ELSE rdPc' = "header" /\ rdOut' = rdOut /\ rdRest' = rdFile.bytes
    /\ UNCHANGED <<rdFile, rdBuf, eqVars, treeVars, iterVars, concVars, repoVars>>

\* z.read_until(b'\0', &mut buf)?
ReadHeader ==
    /\ rdPc = "header"
    /\ rdBuf' = ReadUntil(rdRest, NUL)
    /\ rdRest' = Drop(rdRest, Len(ReadUntil(rdRest, NUL)))
    /\ rdPc' = "parse"
    /\ UNCHANGED <<rdFile, rdOut, eqVars, treeVars, iterVars, concVars, repoVars>>

split_once_unwrap_panics(header) == SplitOnce(header) = <<>>

\* lines 77-86: CStr, to_str, split_once(' ').unwrap(), Kind, u64, Ok(Object)
ParseHeader(bytes, rest) ==
    IF ~CStrOk(bytes) THEN Err
    ELSE LET header == SubSeq(bytes, 1, Len(bytes) - 1) IN
         IF ~IsUtf8(header) THEN Err
         ELSE IF split_once_unwrap_panics(header) THEN Panic
         ELSE LET kind == KindTryFrom(SplitOnce(header)[1])
                  size == ParseU64(SplitOnce(header)[2])
              IN  IF kind = <<>> THEN Err
                  ELSE IF size = <<>> THEN Err
                  ELSE Ok(kind[1], size[1], Take(rest, size[1]))

ReadParse ==
    /\ rdPc = "parse"
    /\ rdOut' = ParseHeader(rdBuf, rdRest)
    /\ rdPc' = "done"
    /\ UNCHANGED <<rdFile, rdBuf, rdRest, eqVars, treeVars, iterVars, concVars, repoVars>>

NextRead == ReadOpen \/ ReadHeader \/ ReadParse

SpecRead == InitRead /\ [][NextRead]_vars

\* the four malformed-header cases, read off the stored bytes
HeaderOf(stream) ==
    IF Find(stream, NUL) = 0 THEN stream ELSE SubSeq(stream, 1, Find(stream, NUL) - 1)

NoNulCase(stream)   == Find(stream, NUL) = 0
NoSpaceCase(stream) == Find(HeaderOf(stream), SP) = 0
BadKindCase(stream) ==
    /\ ~NoSpaceCase(stream)
    /\ SplitOnce(HeaderOf(stream))[1] \notin {KwBlob, KwTree, KwCommit}
BadSizeCase(stream) ==
    /\ ~NoSpaceCase(stream)
    /\ ParseU64(SplitOnce(HeaderOf(stream))[2]) = <<>>

\* C4: Object::read of an object whose header has no NUL, no space, an unknown
\* kind or a size that is no u64 returns an error; it does not abort and does
\* not return an Object.
C4_MalformedHeaderIsErr ==
    (/\ rdPc = "done"
     /\ rdFile.exists
     /\ \/ NoNulCase(rdFile.bytes) \/ NoSpaceCase(rdFile.bytes)
        \/ BadKindCase(rdFile.bytes) \/ BadSizeCase(rdFile.bytes))
        => rdOut.tag = "Err"

---------------------------------------------------------------------------
(* SpecIter: TreeIterator::next called until it ends or fails *)

\* the most entries a modelled tree payload holds
MaxEntries == 2

Str100644 == <<49, 48, 48, 54, 52, 52>>
Str100755 == <<49, 48, 48, 55, 53, 53>>
Str120000 == <<49, 50, 48, 48, 48, 48>>
Str40000  == <<52, 48, 48, 48, 48>>

\* impl TryFrom<&str> for TreeEntryMode: <<mode>> or <<>> for the bail!
ModeTryFrom(value) ==
    IF value = Str100644 THEN <<NormalFile>>
    ELSE IF value = Str100755 THEN <<ExecutableFile>>
    ELSE IF value = Str120000 THEN <<Symlink>>
    ELSE IF value = Str40000 THEN <<Directory>>
    ELSE <<>>

\* modes other writers put in tree payloads: 0o160000 (gitlink), 0o100664
ForeignModes == {57344, 33204}

IterNames == {<<97>>, <<97, SP, 98>>, NameFooTxt}

IterItems ==
    {TreeEntryNew(m, n, h) :
        m \in Modes \cup ForeignModes, n \in IterNames, h \in {Hash0, Hash1}}

SeqsUpTo(S, n) == UNION {[1..k -> S] : k \in 0..n}

InitIter ==
    /\ itItems \in SeqsUpTo(IterItems, MaxEntries)
    /\ itReader = SerializeEntries(itItems)
    /\ itScratch = <<>>
    /\ itOut = <<>>
    /\ itPc = "next"
    /\ EqIdle /\ TreeIdle /\ ReadIdle /\ ConcIdle /\ RepoIdle

\* lines 137-147 of TreeIterator::next, after a non-empty read_until(b' ')
\* left `scratch`; `rest` is what the reader still holds.
\* <<"Some", entry, rest'>> or <<"Err", rest'>>
NextEntry(scratch, rest) ==
    LET tok     == SubSeq(scratch, 1, Len(scratch) - 1)
        mode    == ModeTryFrom(tok)
        nameBuf == ReadUntil(rest, NUL)
        rest2   == Drop(rest, Len(nameBuf))
    IN  IF ~IsUtf8(tok) \/ mode = <<>> THEN <<"Err", rest>>
        ELSE IF ~CStrOk(nameBuf) THEN <<"Err", rest2>>
        ELSE IF Len(rest2) < HashLen THEN <<"Err", <<>> >>
        ELSE <<"Some",
               TreeEntryNew(mode[1], SubSeq(nameBuf, 1, Len(nameBuf) - 1),
                            SubSeq(rest2, 1, HashLen)),
               Drop(rest2, HashLen)>>

\* TreeIterator::next
IterNext ==
    /\ itPc = "next"
    /\ LET scratch == ReadUntil(itReader, SP)
           rest    == Drop(itReader, Len(scratch))
       IN  /\ itScratch' = scratch
           /\ IF Len(scratch) = 0
              THEN itPc' = "end" /\ itOut' = itOut /\ itReader' = rest
              ELSE LET r == NextEntry(scratch, rest) IN
                   IF r[1] = "Err"
                   THEN itPc' = "err" /\ itOut' = itOut /\ itReader' = r[2]
                   ELSE /\ itPc' = "next"
                        /\ itOut' = Append(itOut, r[2])
                        /\ itReader' = r[3]
    /\ UNCHANGED <<itItems, eqVars, treeVars, readVars, concVars, repoVars>>

NextIter == IterNext

SpecIter == InitIter /\ [][NextIter]_vars

IsPrefix(a, b) == Len(a) <= Len(b) /\ a = SubSeq(b, 1, Len(a))

\* C9: over the payload of N serialized entries TreeIterator yields exactly
\* those N entries (mode, name, hash) in storage order and then the end; it
\* fails, instead of yielding, exactly at the first entry whose mode token is
\* not one of 100644, 100755, 120000, 40000.
C9_IteratorRoundTrip ==
    /\ IsPrefix(itOut, itItems)
    /\ itPc = "end" => itOut = itItems
    /\ itPc = "err" =>
          /\ Len(itOut) < Len(itItems)
          /\ itItems[Len(itOut) + 1].mode \notin Modes
    /\ itPc = "next" =>
          \A i \in 1..Len(itOut) : itItems[i].mode \in Modes
    /\ (\A i \in 1..Len(itItems) : itItems[i].mode \in Modes) => itPc # "err"

C9_Witness ==
    /\ itPc = "end"
    /\ Len(itOut) = 2
    /\ itOut[1].mode = Directory /\ itOut[1].hash = Hash1
    /\ itOut[1].name = <<97, SP, 98>>
    /\ itOut[2].mode = NormalFile

---------------------------------------------------------------------------
(* Object::write: the bytes of an object, its hash and its file *)

\* format!("{}", n) for an unsigned integer: decimal digits, no padding
RECURSIVE DecimalDigits(_)
DecimalDigits(n) ==
    IF n < 10 THEN <<Digit(n)>>
    ELSE Append(DecimalDigits(n \div 10), Digit(n % 10))

\* format!("{} {}\0", self.kind, self.size)
FormatHeader(kind, size) ==
    KindDisplay(kind) \o <<SP>> \o DecimalDigits(size) \o <<NUL>>

\* Sha1 of the bytes fed to the hasher, taken as collision free: the digest
\* stands for the bytes it was computed from
Sha1(bytes) == <<"sha1", bytes>>

\* .git/objects/tmp-<pid>
TmpPathPid(pid) == <<"tmp", <<pid>> >>

\* a staging path that does not depend on the process
TmpPathFixed(pid) == <<"tmp", <<0>> >>

TmpPath(pid) == TmpPathPid(pid)

\* .git/objects/<hash_hex[..2]>/<hash_hex[2..]>
ObjPath(hash) == <<"obj", hash[2]>>

\* .git/objects/<hash_hex[..2]>
ObjDir(hash) == <<"objdir", hash[2]>>

RECURSIVE SumBytes(_)
SumBytes(bytes) == IF bytes = <<>> THEN 0 ELSE Head(bytes) + SumBytes(Tail(bytes))

\* ZlibEncoder, as a stored stream: the two-byte zlib header, the data, and
\* on finish() a check value over the data
ZlibHead == <<120, 156>>
ZlibTail(data) == <<SumBytes(data) % 251>>
Deflated(data) == ZlibHead \o data \o ZlibTail(data)

\* pwrite on an inode: the bytes of `chunk` placed at offset `off`
WriteAt(bytes, off, chunk) ==
    [i \in 1..(IF Len(bytes) > off + Len(chunk) THEN Len(bytes) ELSE off + Len(chunk)) |->
        IF i > off /\ i <= off + Len(chunk) THEN chunk[i - off]
        ELSE IF i <= Len(bytes) THEN bytes[i]
        ELSE 0]

---------------------------------------------------------------------------
(* SpecConc: concurrent processes, each in Object::write, and a reader *)

\* the number of concurrently running processes that write objects
NumWriters == 2

\* the most bytes one write() call of io::copy moves
CopyChunk == 1

Pids == 1..NumWriters

\* the objects the processes write: Object { kind, size, reader }
ConcObjects ==
    {[kind |-> "Blob", size |-> 1, reader |-> <<104>>],
     [kind |-> "Tree", size |-> 2, reader |-> <<104, 105>>]}

FullBytes(obj) == FormatHeader(obj.kind, obj.size) \o obj.reader

ConcPaths ==
    {TmpPathPid(p) : p \in Pids} \cup {TmpPathFixed(0)}
        \cup {ObjPath(Sha1(FullBytes(o))) : o \in ConcObjects}

NoObj  == [kind |-> "", size |-> 0, reader |-> <<>>]
Unseen == [path |-> <<"", <<>> >>, exists |-> FALSE, bytes |-> <<>>]

\* a path with no file; a descriptor that is closed; a descriptor whose file
\* lost its name (a rename replaced it)
Absent  == [exists |-> FALSE, bytes |-> <<>>]
NoFd    == <<"", <<>> >>
Orphan  == <<"orphan", <<>> >>

\* Files are kept by the path that names them (no hard links are made); an
\* open descriptor names its file and follows it when rename moves it.
InitConc ==
    /\ files = [q \in ConcPaths |-> Absent]
    /\ subdirs = {}
    /\ wpc = [p \in Pids |-> "idle"]
    /\ wobj = [p \in Pids |-> NoObj]
    /\ wfd = [p \in Pids |-> NoFd]
    /\ woff = [p \in Pids |-> 0]
    /\ whashed = [p \in Pids |-> <<>>]
    /\ seen = Unseen
    /\ EqIdle /\ TreeIdle /\ ReadIdle /\ IterIdle /\ RepoIdle

OtherVars == <<eqVars, treeVars, readVars, iterVars, repoVars>>

\* HashWriter::write through write_all: the bytes go to the encoder, which
\* puts them in the file at the descriptor's offset, and to the hasher
WriteBytes(p, chunk) ==
    /\ files' = IF wfd[p] \in ConcPaths
                THEN [files EXCEPT ![wfd[p]].bytes = WriteAt(@, woff[p], chunk)]
                ELSE files
    /\ woff' = [woff EXCEPT ![p] = @ + Len(chunk)]

\* let tmp_file = File::create(&tmp_path)?  (O_CREAT | O_TRUNC)
WCreate(p, obj) ==
    /\ wpc[p] = "idle"
    /\ files' = [files EXCEPT ![TmpPath(p)] = [exists |-> TRUE, bytes |-> <<>>]]
    /\ wfd' = [wfd EXCEPT ![p] = TmpPath(p)]
    /\ wobj' = [wobj EXCEPT ![p] = obj]
    /\ woff' = [woff EXCEPT ![p] = 0]
    /\ whashed' = [whashed EXCEPT ![p] = <<>>]
    /\ wpc' = [wpc EXCEPT ![p] = "header"]
    /\ UNCHANGED <<subdirs, seen, OtherVars>>

\* writer.write_all(header.as_bytes())?
WHeader(p) ==
    /\ wpc[p] = "header"
    /\ LET header == FormatHeader(wobj[p].kind, wobj[p].size)
       IN  /\ WriteBytes(p, ZlibHead \o header)
           /\ whashed' = [whashed EXCEPT ![p] = header]
    /\ wpc' = [wpc EXCEPT ![p] = "copy"]
    /\ UNCHANGED <<subdirs, wobj, wfd, seen, OtherVars>>

\* io::copy(&mut self.reader, &mut writer)?: one read/write round
WCopy(p) ==
    /\ wpc[p] = "copy"
    /\ wobj[p].reader # <<>>
    /\ LET n     == Min(CopyChunk, Len(wobj[p].reader))
           chunk == SubSeq(wobj[p].reader, 1, n)
       IN  /\ WriteBytes(p, chunk)
           /\ whashed' = [whashed EXCEPT ![p] = @ \o chunk]
           /\ wobj' = [wobj EXCEPT ![p].reader = Drop(@, n)]
    /\ UNCHANGED <<subdirs, wpc, wfd, seen, OtherVars>>

\* writer.writer.finish()?; let hash = writer.hasher.finalize();
\* the File that finish() returns is dropped
WFinish(p) ==
    /\ wpc[p] = "copy"
    /\ wobj[p].reader = <<>>
    /\ WriteBytes(p, ZlibTail(whashed[p]))
    /\ wfd' = [wfd EXCEPT ![p] = NoFd]
    /\ wpc' = [wpc EXCEPT ![p] = "mkdir"]
    /\ UNCHANGED <<subdirs, wobj, whashed, seen, OtherVars>>

\* fs::create_dir_all(&dir_path)?
WMkdir(p) ==
    /\ wpc[p] = "mkdir"
    /\ subdirs' = subdirs \cup {ObjDir(Sha1(whashed[p]))}
    /\ wpc' = [wpc EXCEPT ![p] = "rename"]
    /\ UNCHANGED <<files, wobj, wfd, woff, whashed, seen, OtherVars>>

\* the process exits: main returns and the pid is free for a later process
Exited(p) ==
    /\ wpc' = [wpc EXCEPT ![p] = "idle"]
    /\ wobj' = [wobj EXCEPT ![p] = NoObj]
    /\ woff' = [woff EXCEPT ![p] = 0]
    /\ whashed' = [whashed EXCEPT ![p] = <<>>]

\* fs::rename(tmp_path, dir_path.join(&hash_hex[2..]))?; Ok(hash.into())
WRename(p) ==
    /\ wpc[p] = "rename"
    /\ LET src == TmpPath(p)
           dst == ObjPath(Sha1(whashed[p]))
       IN  IF ~files[src].exists \/ ObjDir(Sha1(whashed[p])) \notin subdirs
           THEN Exited(p) /\ UNCHANGED <<files, wfd>>
           ELSE /\ files' = [files EXCEPT ![dst] = files[src], ![src] = Absent]
                /\ wfd' = [x \in Pids |->
                             IF wfd[x] = src THEN dst
                             ELSE IF wfd[x] = dst THEN Orphan
                             ELSE wfd[x]]
                /\ wpc' = [wpc EXCEPT ![p] = "done"]
                /\ UNCHANGED <<wobj, woff, whashed>>
    /\ UNCHANGED <<subdirs, seen, OtherVars>>

\* any filesystem call of Object::write fails: `?` returns the error, the
\* descriptor is dropped, the temporary file stays, the process exits
WFail(p) ==
    /\ wpc[p] \in {"header", "copy", "mkdir", "rename"}
    /\ wfd' = [wfd EXCEPT ![p] = NoFd]
    /\ Exited(p)
    /\ UNCHANGED <<files, subdirs, seen, OtherVars>>

\* Ok(hash.into()) reaches main, which prints the hash and returns
WExit(p) ==
    /\ wpc[p] = "done"
    /\ Exited(p)
    /\ UNCHANGED <<files, subdirs, wfd, seen, OtherVars>>

\* a concurrent reader looks at a final path (File::open and read to the end)
Observe(q) ==
    /\ q[1] = "obj"
    /\ seen' = [path |-> q, exists |-> files[q].exists, bytes |-> files[q].bytes]
    /\ UNCHANGED <<files, subdirs, wpc, wobj, wfd, woff, whashed, OtherVars>>

NextConc ==
    \/ \E p \in Pids : \E o \in ConcObjects : WCreate(p, o)
    \/ \E p \in Pids : WHeader(p)
    \/ \E p \in Pids : WCopy(p)
    \/ \E p \in Pids : WFinish(p)
    \/ \E p \in Pids : WMkdir(p)
    \/ \E p \in Pids : WRename(p)
    \/ \E p \in Pids : WFail(p)
    \/ \E p \in Pids : WExit(p)
    \/ \E q \in ConcPaths : Observe(q)

SpecConc == InitConc /\ [][NextConc]_vars

\* C1: a final path is absent or holds the whole compressed header+payload of
\* the object hashed to it, in every state and to every reader; a writer that
\* returned Ok left exactly that at its path, whoever else wrote the same.
C1_FinalPathsComplete ==
    /\ \A q \in ConcPaths : (q[1] = "obj" /\ files[q].exists) =>
          files[q].bytes = Deflated(q[2])
    /\ seen.exists => seen.bytes = Deflated(seen.path[2])
    /\ \A p \in Pids : wpc[p] = "done" =>
          LET q == ObjPath(Sha1(whashed[p]))
          IN  files[q].exists /\ files[q].bytes = Deflated(whashed[p])

\* two writers of the same content have both returned, a third party has read
\* the object, while nothing is left to write
C1_Witness ==
    /\ wpc[1] = "done" /\ wpc[2] = "done"
    /\ whashed[1] = whashed[2]
    /\ seen.exists /\ seen.path = ObjPath(Sha1(whashed[1]))

\* a reader sees a finished object while another writer of the same content
\* is part-way through its temporary file
C1_WitnessMidWrite ==
    /\ wpc[1] = "done" /\ wpc[2] = "copy"
    /\ wobj[2].reader # <<>> /\ whashed[2] # <<>>
    /\ IsPrefix(whashed[2], whashed[1])
    /\ seen.exists /\ seen.path = ObjPath(Sha1(whashed[1]))

---------------------------------------------------------------------------
(* Spec: the commands init, hash-object, write-tree and commit-tree, one    *)
(* at a time, on one repository; another process may append to a file of    *)
(* the working directory at any moment.                                     *)
(*                                                                          *)
(* An object is the record [kind, size, payload]: size is what the header   *)
(* declares, payload what was copied after it.  A blob's payload is bytes,  *)
(* a tree's the entries in serialized order, a commit's its lines.  A hash  *)
(* is Sha1 of the object; where the code writes the 20 bytes or 40 hex      *)
(* digits of a hash the model writes the hash itself.  Object::write is one *)
(* step here: SpecConc has its steps.                                       *)

\* the most commit objects the store holds
MaxCommits == 1

HexLen == 40

GitName  == <<46, 103, 105, 116>>     \* ".git"
NameA    == <<97>>
NameD    == <<100>>
NameE    == <<101>>
NameL    == <<108>>
NameX    == <<120>>

Root  == <<>>
PathA == <<NameA>>

PathX == <<NameD, NameX>>

\* the working directory: ./a, ./d/x (executable), ./d/e/l (symlink to ../x),
\* and ./.git/ once init has run; perm is st_mode & 0o777
WorkTree ==
    (Root                     :> [ftype |-> "dir",     perm |-> 493]) @@
    (<<GitName>>              :> [ftype |-> "dir",     perm |-> 493]) @@
    (PathA                    :> [ftype |-> "file",    perm |-> 420]) @@
    (<<NameD>>                :> [ftype |-> "dir",     perm |-> 493]) @@
    (PathX                    :> [ftype |-> "file",    perm |-> 493]) @@
    (<<NameD, NameE>>         :> [ftype |-> "dir",     perm |-> 493]) @@
    (<<NameD, NameE, NameL>>  :> [ftype |-> "symlink", perm |-> 511])

Last(path)   == path[Len(path)]
Parent(path) == SubSeq(path, 1, Len(path) - 1)

Exists(path) ==
    /\ path \in DOMAIN WorkTree
    /\ (path # Root /\ path[1] = GitName) => repo

\* fs::read_dir(path): the names of the children
ReadDir(path) ==
    {Last(q) : q \in {c \in DOMAIN WorkTree : c # Root /\ Parent(c) = path /\ Exists(c)}}

\* File::open(path) follows a symbolic link; metadata() and the reads see
\* the file it names
Target(path) == IF WorkTree[path].ftype = "symlink" THEN PathX ELSE path

\* the bytes of a regular file right now
FileBytes(path) == IF Target(path) = PathA THEN fdata ELSE <<120>>

\* mode & 0o111 != 0
HasExecBit(perm) ==
    \/ perm % 2 = 1
    \/ (perm \div 8) % 2 = 1
    \/ (perm \div 64) % 2 = 1

\* impl TryFrom<&DirEntry> for TreeEntryMode
ModeFromDirEntry(path) ==
    IF WorkTree[path].ftype = "dir" THEN Directory
    ELSE IF WorkTree[path].ftype = "symlink" THEN Symlink
    ELSE IF HasExecBit(WorkTree[path].perm) THEN ExecutableFile
    ELSE NormalFile

\* if name == ".git" { continue; }
SkipsGitDir(name) == name = GitName

\* the check dropped
SkipsNothing(name) == FALSE

SkipsEntry(name) == SkipsGitDir(name)

MkObject(kind, size, payload) == [kind |-> kind, size |-> size, payload |-> payload]

\* buf.len() of write_tree's buf
RECURSIVE TreePayloadLen(_)
TreePayloadLen(es) ==
    IF es = <<>> THEN 0
    ELSE Len(FormatMode(Head(es).mode)) + 1 + Len(Head(es).name) + 1 + HashLen
         + TreePayloadLen(Tail(es))

NoHash      == <<"none", <<>> >>
MissingHash == Sha1(MkObject("Missing", 0, <<>>))

\* Object::read(hash) as write_commit uses it: <<kind>> or <<>> for an Err
ReadKind(hash) == IF hash \in store THEN <<hash[2].kind>> ELSE <<>>

\* if object.kind != Kind::Tree { bail!("Not a tree") }
RequiresTree(kind) == kind = "Tree"

\* the check dropped
RequiresNothing(kind) == TRUE

KindAccepted(kind) == RequiresTree(kind)

Identity == "toxeeec <bartosz.kapciak@gmail.com>"

\* one writeln! of write_commit: the leading word and what follows it
HashLine(key, hash)  == [key |-> key, val |-> hash]
TextLine(key, words) == [key |-> key, val |-> <<"txt">> \o words]

RECURSIVE WordsLen(_)
WordsLen(ws) == IF ws = <<>> THEN 0 ELSE 1 + Len(Head(ws)) + WordsLen(Tail(ws))

\* the bytes of a line with its newline
LineLen(line) ==
    IF line.val[1] = "txt"
    THEN (IF line.key = "" /\ Len(line.val) > 1
          THEN WordsLen(Tail(line.val)) - 1
          ELSE Len(line.key) + WordsLen(Tail(line.val))) + 1
    ELSE Len(line.key) + 1 + HexLen + 1

RECURSIVE LinesLen(_)
LinesLen(ls) == IF ls = <<>> THEN 0 ELSE LineLen(Head(ls)) + LinesLen(Tail(ls))

\* lines 223-247 of write_commit: buf; parent is NoHash for None
CommitLines(hash, message, parent, timestamp, timezone) ==
    <<HashLine("tree", hash)>>
    \o (IF parent # NoHash THEN <<HashLine("parent", parent)>> ELSE <<>>)
    \o <<TextLine("author", <<Identity, timestamp, timezone>>),
         TextLine("commiter", <<Identity, timestamp, timezone>>),
         TextLine("", <<>>),
         TextLine("", <<message>>)>>

Frame(path) == [path |-> path, todo |-> ReadDir(path), entries |-> <<>>]
NoBlob == [active |-> FALSE, path |-> Root, size |-> 0]
NoRet  == [op |-> "", status |-> "", hash |-> NoHash, arg |-> NoHash,
           parent |-> NoHash, wrote |-> FALSE, dir |-> Root]

Init ==
    /\ repo = FALSE
    /\ store = {}
    /\ fdata = <<104>>
    /\ op = "none"
    /\ stack = <<>>
    /\ blob = NoBlob
    /\ built = {}
    /\ ret = NoRet
    /\ EqIdle /\ TreeIdle /\ ReadIdle /\ IterIdle /\ ConcIdle

Outside == <<eqVars, treeVars, readVars, iterVars, concVars>>

Commits == {h \in store : h[2].kind = "Commit"}

\* another process appends a byte to ./a, once
Append105 ==
    /\ fdata = <<104>>
    /\ fdata' = Append(fdata, 105)
    /\ UNCHANGED <<repo, store, op, stack, blob, built, ret, Outside>>

\* Command::Init
CmdInit ==
    /\ op = "none"
    /\ IF repo
       THEN ret' = [NoRet EXCEPT !.op = "init", !.status = "err"] /\ repo' = repo
       ELSE ret' = [NoRet EXCEPT !.op = "init", !.status = "ok"] /\ repo' = TRUE
    /\ UNCHANGED <<store, fdata, op, stack, blob, built, Outside>>

\* write_blob lines 164-170: File::open, file.metadata(), Object { .. }
OpenBlob(path) == [active |-> TRUE, path |-> path, size |-> Len(FileBytes(path))]

\* write_blob line 172 through Object::write: the header carries blob.size,
\* io::copy takes the file's bytes as they are now
BlobObject == MkObject("Blob", blob.size, FileBytes(blob.path))

\* Command::HashObject: write_blob(path) up to the Object
CmdHashObject(path) ==
    /\ op = "none"
    /\ Exists(path) /\ WorkTree[path].ftype # "dir"
    /\ op' = "hash-object"
    /\ blob' = OpenBlob(path)
    /\ ret' = NoRet
    /\ UNCHANGED <<repo, store, fdata, stack, built, Outside>>

\* Command::HashObject: object.write() and the return
HashObjectWrite ==
    /\ op = "hash-object" /\ blob.active
    /\ repo
    /\ store' = store \cup {Sha1(BlobObject)}
    /\ ret' = [NoRet EXCEPT !.op = "hash-object", !.status = "ok",
                            !.hash = Sha1(BlobObject),
                            !.wrote = store' # store]
    /\ op' = "none"
    /\ blob' = NoBlob
    /\ UNCHANGED <<repo, fdata, stack, built, Outside>>

\* Command::WriteTree: write_tree(".") up to its loop
CmdWriteTree ==
    /\ op = "none"
    /\ op' = "write-tree"
    /\ stack' = <<Frame(Root)>>
    /\ built' = {}
    /\ ret' = NoRet
    /\ UNCHANGED <<repo, store, fdata, blob, Outside>>

Top == stack[Len(stack)]

SetTop(f) == [stack EXCEPT ![Len(stack)] = f]

\* write_tree lines 181-185: the next entry of read_dir is .git
TreeSkip(name) ==
    /\ op = "write-tree" /\ ~blob.active /\ stack # <<>>
    /\ name \in Top.todo
    /\ SkipsEntry(name)
    /\ stack' = SetTop([Top EXCEPT !.todo = @ \ {name}])
    /\ UNCHANGED <<repo, store, fdata, op, blob, built, ret, Outside>>

\* write_tree lines 181-192: the next entry is a directory, write_tree recurses
TreeEnterDir(name) ==
    /\ op = "write-tree" /\ ~blob.active /\ stack # <<>>
    /\ name \in Top.todo
    /\ ~SkipsEntry(name)
    /\ WorkTree[Top.path \o <<name>>].ftype = "dir"
    /\ stack' = Append(SetTop([Top EXCEPT !.todo = @ \ {name}]),
                       Frame(Top.path \o <<name>>))
    /\ UNCHANGED <<repo, store, fdata, op, blob, built, ret, Outside>>

\* write_tree lines 181-194: the next entry is no directory, write_blob opens it
TreeOpenBlob(name) ==
    /\ op = "write-tree" /\ ~blob.active /\ stack # <<>>
    /\ name \in Top.todo
    /\ ~SkipsEntry(name)
    /\ WorkTree[Top.path \o <<name>>].ftype # "dir"
    /\ blob' = OpenBlob(Top.path \o <<name>>)
    /\ stack' = SetTop([Top EXCEPT !.todo = @ \ {name}])
    /\ UNCHANGED <<repo, store, fdata, op, built, ret, Outside>>

\* write_tree lines 194-197: write_blob's object.write(), entries.insert
TreeBlobWrite ==
    /\ op = "write-tree" /\ blob.active
    /\ repo
    /\ store' = store \cup {Sha1(BlobObject)}
    /\ stack' = SetTop([Top EXCEPT !.entries =
                   BTreeInsert(@, TreeEntryNew(ModeFromDirEntry(blob.path),
                                               Last(blob.path), Sha1(BlobObject)))])
    /\ blob' = NoBlob
    /\ UNCHANGED <<repo, fdata, op, built, ret, Outside>>

\* write_tree lines 200-215: the directory's Object
TreeObject(es) == MkObject("Tree", TreePayloadLen(es), es)

\* write_tree lines 200-215 and the caller's line 197 (or main's println)
TreeWrite ==
    /\ op = "write-tree" /\ ~blob.active /\ stack # <<>>
    /\ Top.todo = {}
    /\ repo
    /\ LET hash == Sha1(TreeObject(Top.entries))
           rest == SubSeq(stack, 1, Len(stack) - 1)
       IN  /\ store' = store \cup {hash}
           /\ built' = built \cup {Top.path}
           /\ IF rest = <<>>
              THEN /\ stack' = <<>>
                   /\ op' = "none"
                   /\ ret' = [NoRet EXCEPT !.op = "write-tree", !.status = "ok",
                                           !.hash = hash]
              ELSE /\ stack' = [rest EXCEPT ![Len(rest)].entries =
                          BTreeInsert(@, TreeEntryNew(Directory, Last(Top.path), hash))]
                   /\ UNCHANGED <<op, ret>>
    /\ UNCHANGED <<repo, fdata, blob, Outside>>

\* a filesystem call of the command in progress fails (or .git/objects is
\* missing when Object::write creates its temporary file): every `?` up the
\* call chain returns the error and main returns it
CmdFail ==
    /\ op \in {"hash-object", "write-tree"}
    /\ ret' = [NoRet EXCEPT !.op = op, !.status = "err",
                            !.dir = IF stack # <<>> THEN Top.path ELSE Root]
    /\ op' = "none"
    /\ stack' = <<>>
    /\ blob' = NoBlob
    /\ UNCHANGED <<repo, store, fdata, built, Outside>>

\* Command::CommitTree: write_commit(hash, message, parent); `clock` is
\* whether SystemTime / OffsetDateTime::now_local / format succeed
CmdCommitTree(hash, message, parent, timestamp, timezone, clock) ==
    /\ op = "none"
    /\ LET kind   == ReadKind(hash)
           lines  == CommitLines(hash, message, parent, timestamp, timezone)
           object == MkObject("Commit", LinesLen(lines), lines)
           ok     == /\ kind # <<>> /\ KindAccepted(kind[1])
                     /\ clock /\ repo
       IN  IF ok
           THEN /\ Sha1(object) \in store \/ Cardinality(Commits) < MaxCommits
                /\ store' = store \cup {Sha1(object)}
                /\ ret' = [NoRet EXCEPT !.op = "commit-tree", !.status = "ok",
                                        !.hash = Sha1(object), !.arg = hash,
                                        !.parent = parent,
                                        !.wrote = store' # store]
           ELSE /\ store' = store
                /\ ret' = [NoRet EXCEPT !.op = "commit-tree", !.status = "err",
                                        !.arg = hash, !.parent = parent,
                                        !.wrote = store' # store]
    /\ UNCHANGED <<repo, fdata, op, stack, blob, built, Outside>>

FilePaths == {q \in DOMAIN WorkTree : WorkTree[q].ftype # "dir"}

Next ==
    \/ Append105
    \/ CmdInit
    \/ \E q \in FilePaths : CmdHashObject(q)
    \/ HashObjectWrite
    \/ CmdWriteTree
    \/ \E n \in {GitName, NameA, NameD, NameE, NameL, NameX} :
          TreeSkip(n) \/ TreeEnterDir(n) \/ TreeOpenBlob(n)
    \/ TreeBlobWrite
    \/ TreeWrite
    \/ CmdFail
    \/ \E h \in store \cup {MissingHash} :
       \E parent \in {NoHash} \cup Commits :
       \E clock \in BOOLEAN :
          CmdCommitTree(h, "init", parent, "1700000000", "+0100", clock)

Spec == Init /\ [][Next]_vars

Trees == {h \in store : h[2].kind = "Tree"}
Blobs == {h \in store : h[2].kind = "Blob"}

\* the number of payload bytes that follow an object's header
PayloadLen(object) ==
    IF object.kind = "Blob" THEN Len(object.payload)
    ELSE IF object.kind = "Tree" THEN TreePayloadLen(object.payload)
    ELSE LinesLen(object.payload)

\* C5: a commit's payload is the tree line, the parent line iff a parent was
\* given, an author line, a committer line with the same identity, timestamp
\* and timezone, an empty line and the message.
C5_CommitPayloadLayout ==
    /\ \A c \in Commits :
          LET ls == c[2].payload
              n  == Len(ls)
          IN  /\ n \in {5, 6}
              /\ ls[1].key = "tree"
              /\ n = 6 => ls[2].key = "parent"
              /\ ls[n - 3].key = "author"
              /\ ls[n - 2].key = "committer"
              /\ ls[n - 3].val = ls[n - 2].val
              /\ ls[n - 1] = TextLine("", <<>>)
              /\ ls[n] = TextLine("", <<"init">>)
    /\ (ret.op = "commit-tree" /\ ret.status = "ok") =>
          /\ ret.hash[2].payload[1] = HashLine("tree", ret.arg)
          /\ (ret.parent # NoHash) <=> (Len(ret.hash[2].payload) = 6)

\* C6: every commit in the store names a stored Tree object in its tree line;
\* write_commit given a hash that is missing or is a Blob or a Commit fails
\* and writes nothing.
C6_CommitsNameStoredTrees ==
    /\ \A c \in Commits :
          /\ c[2].payload[1].key = "tree"
          /\ c[2].payload[1].val \in Trees
    /\ (ret.op = "commit-tree" /\ ret.arg \notin Trees) => ret.status = "err"
    /\ (ret.op = "commit-tree" /\ ret.status = "err") => ~ret.wrote

\* a commit is stored, and the last command was a commit-tree on a blob
C6_Witness ==
    /\ Commits # {}
    /\ ret.op = "commit-tree" /\ ret.status = "err"
    /\ ret.arg \in Blobs

\* C7: the size in every stored object's header is the number of payload
\* bytes that follow it.
C7_HeaderSizeIsPayloadLen ==
    \A h \in store : h[2].size = PayloadLen(h[2])

\* C10: every stored Tree names stored children of the right kind and no
\* .git; a directory is published only after its children, and a failed
\* build has published neither the directory of the error nor an ancestor.
C10_TreesAfterChildren ==
    /\ \A t \in Trees : \A i \in 1..Len(t[2].payload) :
          LET e == t[2].payload[i]
          IN  /\ e.hash \in store
              /\ e.hash[2].kind = (IF e.mode = Directory THEN "Tree" ELSE "Blob")
              /\ e.name # GitName
    /\ \A i \in 1..Len(stack) : stack[i].path \notin built
    /\ (ret.op = "write-tree" /\ ret.status = "err") =>
          \A d \in built : ~IsPrefix(d, ret.dir)

\* a build failed in ./d after ./d/e was published, and an earlier build's
\* root tree is in the store
C10_Witness ==
    /\ ret.op = "write-tree" /\ ret.status = "err"
    /\ ret.dir = <<NameD>>
    /\ built = {<<NameD, NameE>>}
    /\ \E t \in Trees : \E i \in 1..Len(t[2].payload) :
          t[2].payload[i].mode = Directory /\ t[2].payload[i].name = NameD

=============================================================================
